---- MODULE Spec2Model ----
(***************************************************************************)
(* Model of the doc_processor service.                                     *)
(*                                                                         *)
(*   handler.py    serverless batch handler (runpod): one job, many        *)
(*                 sources, per-source try/except, aggregated response.    *)
(*   processor.py  capability tier, pipeline options, single-source        *)
(*                 handler used by the HTTP endpoint.                      *)
(*   app.py        FastAPI endpoint: GET / and POST /process.              *)
(*                                                                         *)
(* Strings that the code lower-cases or splits are sequences of one-       *)
(* character strings, so that str.lower and str.split are computed.        *)
(* The conversion library, the HTTP client and the exporters are external: *)
(* their results are nondeterministic choices over the outcomes they have. *)
(***************************************************************************)
EXTENDS Integers, Sequences, FiniteSets, TLC

\* ------------------------------------------------------------------ bounds
MaxSources == 2

\* ---------------------------------------------------------- Python values
PyAbsent == [t |-> "absent", v |-> <<>>]
PyNone == [t |-> "none", v |-> <<>>]
PyStr(s) == [t |-> "str", v |-> s]
PyInt(n) == [t |-> "int", v |-> <<n>>]
PyList(l) == [t |-> "list", v |-> l]
\* a value that is truthy and neither a string nor a list, such as 5
PyNumber == [t |-> "number", v |-> <<>>]

\* variant: only None is falsy, as in "if x is not None"
Truthy_NotNone(x) == x.t \notin {"none", "absent"}

\* bool(x): None, "", [] and 0 are falsy
Truthy(x) ==
  CASE x.t = "none" -> FALSE
    [] x.t = "number" -> TRUE
    [] x.t = "str" -> Len(x.v) > 0
    [] x.t = "list" -> Len(x.v) > 0
    [] x.t = "int" -> x.v[1] # 0
    [] OTHER -> FALSE

\* dict.get(key, default): the default only when the key is missing
DictGet(field, default) == IF field.t = "absent" THEN default ELSE field

\* str.lower(), character by character
LowerChar(c) ==
  CASE c = "A" -> "a" [] c = "B" -> "b" [] c = "C" -> "c" [] c = "D" -> "d"
    [] c = "E" -> "e" [] c = "F" -> "f" [] c = "G" -> "g" [] c = "H" -> "h"
    [] c = "I" -> "i" [] c = "J" -> "j" [] c = "K" -> "k" [] c = "L" -> "l"
    [] c = "M" -> "m" [] c = "N" -> "n" [] c = "O" -> "o" [] c = "P" -> "p"
    [] c = "Q" -> "q" [] c = "R" -> "r" [] c = "S" -> "s" [] c = "T" -> "t"
    [] c = "U" -> "u" [] c = "V" -> "v" [] c = "W" -> "w" [] c = "X" -> "x"
    [] c = "Y" -> "y" [] c = "Z" -> "z"
    [] OTHER -> c

Lower(s) == [i \in DOMAIN s |-> LowerChar(s[i])]

\* source.split("/")[-1] if "/" in source else "document"
DocumentName == <<"d", "o", "c", "u", "m", "e", "n", "t">>

HasSlash(s) == \E i \in DOMAIN s : s[i] = "/"

LastSegment(s) ==
  LET last == CHOOSE i \in DOMAIN s : s[i] = "/" /\ \A j \in DOMAIN s : s[j] = "/" => j <= i
  IN SubSeq(s, last + 1, Len(s))

Filename(s) == IF HasSlash(s) THEN LastSegment(s) ELSE DocumentName

\* ------------------------------------------------------- string literals
MARKDOWN == <<"m", "a", "r", "k", "d", "o", "w", "n">>
HTML == <<"h", "t", "m", "l">>
JSON == <<"j", "s", "o", "n">>
TEXT == <<"t", "e", "x", "t">>
LOW == <<"l", "o", "w">>
MEDIUM == <<"m", "e", "d", "i", "u", "m">>
HIGH == <<"h", "i", "g", "h">>


\* ------------------------------------------------ pipeline configuration
\* PdfPipelineOptions(): a field the code does not assign keeps the
\* library's default, written "default"
DefaultPipelineOptions ==
  [do_code_enrichment |-> FALSE, do_formula_enrichment |-> FALSE,
   generate_picture_images |-> FALSE, do_picture_classification |-> FALSE,
   do_picture_description |-> FALSE, do_table_structure |-> TRUE,
   do_ocr |-> TRUE, ocr_engine |-> "default", force_full_page_ocr |-> FALSE,
   ocr_use_gpu |-> "default", table_mode |-> "default",
   do_cell_matching |-> "default", images_scale |-> "default",
   picture_description_options |-> "default"]

\* handler.py: one converter with every enrichment enabled
create_enhanced_converter ==
  [DefaultPipelineOptions EXCEPT
     !.do_code_enrichment = TRUE, !.do_formula_enrichment = TRUE,
     !.do_picture_classification = TRUE, !.do_picture_description = TRUE,
     !.do_table_structure = TRUE, !.do_cell_matching = "True",
     !.table_mode = "ACCURATE", !.generate_picture_images = TRUE,
     !.images_scale = "2", !.do_ocr = TRUE, !.ocr_engine = "EasyOcr",
     !.force_full_page_ocr = TRUE, !.ocr_use_gpu = "True",
     !.picture_description_options = "granite_picture_description"]

\* processor.py: options per capability tier
VALID_CAPABILITIES == {LOW, MEDIUM, HIGH}

\* variant: the medium branch a copy of the low branch
_build_pipeline_options_MediumAsLow(capability) ==
  IF capability = LOW \/ capability = MEDIUM THEN
    [DefaultPipelineOptions EXCEPT
       !.do_code_enrichment = FALSE, !.do_formula_enrichment = FALSE,
       !.generate_picture_images = FALSE, !.do_picture_classification = FALSE,
       !.do_picture_description = FALSE, !.do_table_structure = TRUE,
       !.do_ocr = TRUE, !.ocr_engine = "TesseractCli",
       !.force_full_page_ocr = TRUE]
  ELSE
    [DefaultPipelineOptions EXCEPT
       !.do_code_enrichment = TRUE, !.do_formula_enrichment = TRUE,
       !.generate_picture_images = TRUE, !.images_scale = "2",
       !.do_picture_classification = TRUE, !.do_picture_description = TRUE,
       !.picture_description_options = "smolvlm_picture_description",
       !.do_table_structure = TRUE, !.do_cell_matching = "True",
       !.table_mode = "ACCURATE", !.do_ocr = TRUE,
       !.ocr_engine = "TesseractCli", !.force_full_page_ocr = TRUE]

_build_pipeline_options(capability) ==
  IF capability = LOW THEN
    [DefaultPipelineOptions EXCEPT
       !.do_code_enrichment = FALSE, !.do_formula_enrichment = FALSE,
       !.generate_picture_images = FALSE, !.do_picture_classification = FALSE,
       !.do_picture_description = FALSE, !.do_table_structure = TRUE,
       !.do_ocr = TRUE, !.ocr_engine = "TesseractCli",
       !.force_full_page_ocr = TRUE]
  ELSE IF capability = MEDIUM THEN
    [DefaultPipelineOptions EXCEPT
       !.do_code_enrichment = TRUE, !.do_formula_enrichment = TRUE,
       !.generate_picture_images = FALSE, !.do_picture_classification = FALSE,
       !.do_picture_description = FALSE, !.do_table_structure = TRUE,
       !.do_ocr = TRUE, !.ocr_engine = "TesseractCli",
       !.force_full_page_ocr = TRUE]
  ELSE
    [DefaultPipelineOptions EXCEPT
       !.do_code_enrichment = TRUE, !.do_formula_enrichment = TRUE,
       !.generate_picture_images = TRUE, !.images_scale = "2",
       !.do_picture_classification = TRUE, !.do_picture_description = TRUE,
       !.picture_description_options = "smolvlm_picture_description",
       !.do_table_structure = TRUE, !.do_cell_matching = "True",
       !.table_mode = "ACCURATE", !.do_ocr = TRUE,
       !.ocr_engine = "TesseractCli", !.force_full_page_ocr = TRUE]

\* variant: the tier read without the fallback of lines 37-39
EffectiveCapability_NoFallback(env) == Lower(DictGet(env, PyStr(HIGH)).v)

\* os.getenv("DEVICE_CAPABILITY", "high").lower(), then the fallback
EffectiveCapability(env) ==
  LET lowered == Lower(DictGet(env, PyStr(HIGH)).v)
  IN IF lowered \notin VALID_CAPABILITIES THEN HIGH ELSE lowered

create_converter(capability) == _build_pipeline_options(capability)

\* processor.py: the table the metadata is read from
enrichment_flags ==
  [c \in VALID_CAPABILITIES |->
     IF c = LOW THEN
       [code_enrichment |-> FALSE, formula_enrichment |-> FALSE,
        picture_classification |-> FALSE, picture_description |-> FALSE,
        table_structure |-> FALSE, ocr |-> FALSE]
     ELSE IF c = MEDIUM THEN
       [code_enrichment |-> TRUE, formula_enrichment |-> TRUE,
        picture_classification |-> FALSE, picture_description |-> FALSE,
        table_structure |-> TRUE, ocr |-> TRUE]
     ELSE
       [code_enrichment |-> TRUE, formula_enrichment |-> TRUE,
        picture_classification |-> TRUE, picture_description |-> TRUE,
        table_structure |-> TRUE, ocr |-> TRUE]]

\* handler.py: the metadata states every enrichment
AllEnrichments ==
  [code_enrichment |-> TRUE, formula_enrichment |-> TRUE,
   picture_classification |-> TRUE, picture_description |-> TRUE,
   table_structure |-> TRUE, ocr |-> TRUE]

\* ------------------------------------------------------------ exceptions
\* httpx.RequestError covers transport failures; the HTTPStatusError that
\* raise_for_status raises derives from httpx.HTTPError only
RequestErrors == {"ConnectError", "ReadTimeout"}

FetchErrors == RequestErrors \cup {"HTTPStatusError"}

Exceptions ==
  FetchErrors \cup {"ConversionError", "ExportError", "AttributeError", "KeyError"}

\* variant: the handler without its except Exception clause
HandlerCatches_RequestErrorOnly(exc) == exc \in RequestErrors

\* except httpx.RequestError / except Exception
HandlerCatches(exc) == exc \in Exceptions

ErrorPrefix(exc) ==
  IF exc \in RequestErrors THEN "HTTP request failed" ELSE "Processing failed"

\* f"{prefix}: {str(e)}"
ErrorMsg(exc) == [prefix |-> ErrorPrefix(exc), exc |-> exc]

\* --------------------------------------------------------------- exports
\* variant: the chain compares export_format itself, without lower()
SelectExporter_CaseSensitive(export_format) ==
  IF export_format.t # "str" THEN "AttributeError"
  ELSE LET f == export_format.v
       IN IF f = MARKDOWN THEN "export_to_markdown"
          ELSE IF f = HTML THEN "export_to_html"
          ELSE IF f = JSON THEN "export_to_json"
          ELSE IF f = TEXT THEN "export_to_text"
          ELSE "export_to_markdown"

\* the if/elif chain on export_format.lower(); a value that is no string
\* has no lower()
SelectExporter(export_format) ==
  IF export_format.t # "str" THEN "AttributeError"
  ELSE LET f == Lower(export_format.v)
       IN IF f = MARKDOWN THEN "export_to_markdown"
          ELSE IF f = HTML THEN "export_to_html"
          ELSE IF f = JSON THEN "export_to_json"
          ELSE IF f = TEXT THEN "export_to_text"
          ELSE "export_to_markdown"

\* ------------------------------------------------------------- documents
\* A converted document of the library: text items carry a label (the
\* label values are lower-case words, code items are text items labelled
\* "code"), pictures, tables and pages are collections.
Fixtures ==
  [plain |-> [texts |-> <<[label |-> "text"]>>, pictures |-> <<>>,
              tables |-> <<>>, pages |-> <<"p1">>],
   rich |-> [texts |-> <<[label |-> "formula"], [label |-> "code"],
                         [label |-> "text"], [label |-> "formula"]>>,
             pictures |-> <<"pic1">>, tables |-> <<"t1", "t2">>,
             pages |-> <<"p1", "p2">>]]

DocIds == DOMAIN Fixtures

hasattr(obj, attr) == attr \in DOMAIN obj

RECURSIVE CountFormulas(_)
CountFormulas(texts) ==
  IF texts = <<>> THEN 0
  ELSE (IF hasattr(Head(texts), "label") /\ Head(texts).label = "FORMULA"
        THEN 1 ELSE 0) + CountFormulas(Tail(texts))

EnrichmentStats(doc) ==
  [code_blocks |-> IF hasattr(doc, "code") THEN Len(doc.code) ELSE 0,
   formulas |-> CountFormulas(doc.texts),
   images |-> IF hasattr(doc, "pictures") THEN Len(doc.pictures) ELSE 0,
   tables |-> IF hasattr(doc, "tables") THEN Len(doc.tables) ELSE 0]

PageCount(doc) == IF hasattr(doc, "pages") THEN Len(doc.pages) ELSE -1


\* ------------------------------------------------------------------ state
VARIABLES
  converter,          \* handler.py: the module-level converter
  job,                \* handler.py: the job being handled
  plan,               \* what the network, the engine and the exporter do per source
  pc,                 \* handler.py: position of the handler
  idx,                \* handler.py: position of the for loop in sources
  doc,                \* handler.py: the converted document in hand
  results,            \* handler.py: results
  response,           \* handler.py: what the handler returned or raised
  trace,              \* calls made per source: fetches, conversions, exports
  envCapability,      \* environment variable DEVICE_CAPABILITY
  envApiKey,          \* environment variable API_KEY
  DEVICE_CAPABILITY,  \* processor.py: the effective tier
  app_converter,      \* processor.py: the module-level converter
  appPc,              \* app.py: position of the request in flight
  appReq,             \* app.py: the request in flight
  appResp             \* app.py: the last response

batchVars == <<converter, job, plan, pc, idx, doc, results, response, trace>>

appVars ==
  <<envCapability, envApiKey, DEVICE_CAPABILITY, app_converter, appPc, appReq, appResp>>

vars ==
  <<converter, job, plan, pc, idx, doc, results, response, trace, envCapability,
    envApiKey, DEVICE_CAPABILITY, app_converter, appPc, appReq, appResp>>

\* ----------------------------------------------------- inputs of handler
U1 == <<"h", "/", "a">>
U2 == <<"b">>

SourceValues == {PyStr(<<>>), PyNone, PyStr(U1), PyStr(U2)}

SourceLists == UNION {[1..n -> SourceValues] : n \in 0..MaxSources}

SourcesValues == {PyAbsent, PyNone} \cup {PyList(l) : l \in SourceLists}

ExportFormats ==
  {PyAbsent, PyNone, PyStr(MARKDOWN),
   PyStr(<<"M", "a", "r", "k", "D", "o", "w", "n">>),
   PyStr(HTML), PyStr(<<"H", "T", "M", "L">>),
   PyStr(JSON), PyStr(<<"J", "s", "o", "n">>),
   PyStr(TEXT), PyStr(<<"t", "e", "x", "T">>),
   PyStr(<<"p", "d", "f">>), PyStr(<<>>)}

MaxPagesValues == {PyAbsent, PyNone, PyInt(0), PyInt(2)}

MaxFileSizeValues == {PyAbsent, PyNone, PyInt(0), PyInt(1000)}

EmptyDict ==
  [t |-> "dict", sources |-> PyAbsent, export_format |-> PyAbsent,
   max_pages |-> PyAbsent, max_file_size |-> PyAbsent]

\* the optional fields of a request: the format varied with the limits left
\* out, or the limits varied with the format left out
OptionValues ==
  [export_format : ExportFormats, max_pages : {PyAbsent}, max_file_size : {PyAbsent}]
  \cup [export_format : {PyAbsent}, max_pages : MaxPagesValues,
        max_file_size : MaxFileSizeValues]

InputValues ==
  {[EmptyDict EXCEPT !.t = "absent"], [EmptyDict EXCEPT !.t = "none"],
   [EmptyDict EXCEPT !.sources = PyNumber]}
  \cup {[t |-> "dict", sources |-> s, export_format |-> o.export_format,
         max_pages |-> o.max_pages, max_file_size |-> o.max_file_size] :
          s \in SourcesValues, o \in OptionValues}

Jobs == [input : InputValues]

\* what happens to one source: the fetch, the conversion (an error or the
\* document converted), the export
NoFate == [fetch |-> "none", convert |-> "none", export |-> "none"]

ItemFates ==
  {[fetch |-> e, convert |-> "none", export |-> "none"] : e \in FetchErrors}
  \cup {[fetch |-> "ok", convert |-> "ConversionError", export |-> "none"]}
  \cup [fetch : {"ok"}, convert : DocIds, export : {"ok", "ExportError"}]

AllOk(fate) == fate.fetch = "ok" /\ fate.convert \in DocIds /\ fate.export = "ok"

\* ------------------------------------------------- handler.py: handler(job)
\* job.get('input', {})
InputData(j) == DictGet(j.input, EmptyDict)

\* input_data.get('sources', [])
Sources(j) == DictGet(InputData(j).sources, PyList(<<>>))

\* input_data.get('export_format', 'markdown')
ExportFormat(j) == DictGet(InputData(j).export_format, PyStr(MARKDOWN))

\* input_data.get('max_pages', None)
MaxPages(j) == DictGet(InputData(j).max_pages, PyNone)

DEFAULT_MAX_FILE_SIZE == 100 * 1024 * 1024

\* input_data.get('max_file_size', 100 * 1024 * 1024)
MaxFileSize(j) == DictGet(InputData(j).max_file_size, PyInt(DEFAULT_MAX_FILE_SIZE))

\* variant: convert_kwargs without the page limit
ConvertKwargs_NoPageLimit(max_pages, max_file_size) ==
  [max_num_pages |-> PyAbsent,
   max_file_size |-> IF Truthy(max_file_size) THEN max_file_size ELSE PyAbsent]

\* convert_kwargs: a key is set only when its value is truthy
ConvertKwargs(max_pages, max_file_size) ==
  [max_num_pages |-> IF Truthy(max_pages) THEN max_pages ELSE PyAbsent,
   max_file_size |-> IF Truthy(max_file_size) THEN max_file_size ELSE PyAbsent]

Plans(j) ==
  IF InputData(j).t = "dict" /\ Sources(j).t = "list"
  THEN LET l == Sources(j).v
       IN {p \in [DOMAIN l -> ItemFates \cup {NoFate}] :
             \A i \in DOMAIN l : (p[i] = NoFate) <=> ~Truthy(l[i])}
  ELSE {<<>>}

HasStatus(r, s) == "status" \in DOMAIN r /\ r.status = s

CountStatus(rs, s) == Cardinality({i \in DOMAIN rs : HasStatus(rs[i], s)})

\* variant: results.insert(0, r) in place of results.append(r)
AppendResult_Prepend(rs, r) == <<r>> \o rs

AppendResult(rs, r) == Append(rs, r)

EmptyRecord(source) == [error |-> [prefix |-> "Empty source", exc |-> "none"], source |-> source]

FailureRecord(exc, source) == [error |-> ErrorMsg(exc), source |-> source, status |-> "failed"]

SuccessRecord(source, export_format, exporter, d) ==
  [content |-> [exporter |-> exporter, doc |-> d],
   metadata |-> [source |-> source, filename |-> Filename(source.v),
                 page_count |-> PageCount(Fixtures[d]),
                 export_format |-> export_format,
                 enrichments_applied |-> AllEnrichments,
                 enrichment_stats |-> EnrichmentStats(Fixtures[d])],
   status |-> "success"]

NoResponse == [pending |-> TRUE]

NoJob == [input |-> [EmptyDict EXCEPT !.t = "absent"]]

NewTrace(source) ==
  [source |-> source, fetches |-> 0, converts |-> <<>>, engines |-> <<>>, exports |-> <<>>]

\* the name converter before line 70 has run
NotConstructed == [constructed |-> FALSE]

BatchInit ==
  /\ converter = NotConstructed
  /\ job = NoJob
  /\ plan = <<>>
  /\ pc = "import"
  /\ idx = 0
  /\ doc = "none"
  /\ results = <<>>
  /\ response = NoResponse
  /\ trace = <<>>

\* lines 68-71: the module-level statement that builds the converter when
\* the module is loaded, before the worker is started
ModuleImport ==
  /\ pc = "import"
  /\ converter' = create_enhanced_converter
  /\ pc' = "idle"
  /\ UNCHANGED <<job, plan, idx, doc, results, response, trace, appVars>>

\* lines 76-88: read the input, reject a job without sources, start the loop
Invoke(j, p) ==
  /\ pc = "idle"
  /\ job' = j
  /\ plan' = p
  /\ results' = <<>>
  /\ trace' = <<>>
  /\ doc' = "none"
  /\ idx' = 1
  /\ IF InputData(j).t # "dict"
     THEN pc' = "raised" /\ response' = [exception |-> "AttributeError"]
     ELSE IF ~Truthy(Sources(j))
     THEN pc' = "returned"
          /\ response' = [error |-> "No sources provided", status_code |-> 400]
     ELSE IF Sources(j).t # "list"
     THEN pc' = "raised" /\ response' = [exception |-> "TypeError"]
     ELSE pc' = "loop" /\ response' = NoResponse
  /\ UNCHANGED <<converter, appVars>>

\* variant: a failed item is recorded and tried again
ItemRaises_Retry(exc) ==
  IF HandlerCatches(exc)
  THEN /\ results' = AppendResult(results, FailureRecord(exc, Sources(job).v[idx]))
       /\ idx' = idx
       /\ pc' = "loop"
       /\ response' = response
  ELSE /\ pc' = "raised"
       /\ response' = [exception |-> exc]
       /\ UNCHANGED <<results, idx>>

\* an exception raised inside the try block of the item at idx
ItemRaises(exc) ==
  IF HandlerCatches(exc)
  THEN /\ results' = AppendResult(results, FailureRecord(exc, Sources(job).v[idx]))
       /\ idx' = idx + 1
       /\ pc' = "loop"
       /\ response' = response
  ELSE /\ pc' = "raised"
       /\ response' = [exception |-> exc]
       /\ UNCHANGED <<results, idx>>

\* lines 90-93: a falsy source is recorded and skipped
SkipEmpty ==
  /\ pc = "loop"
  /\ idx <= Len(Sources(job).v)
  /\ ~Truthy(Sources(job).v[idx])
  /\ results' = AppendResult(results, EmptyRecord(Sources(job).v[idx]))
  /\ trace' = Append(trace, NewTrace(Sources(job).v[idx]))
  /\ idx' = idx + 1
  /\ UNCHANGED <<converter, job, plan, pc, doc, response, appVars>>

\* lines 99-101: client.get(source), raise_for_status()
Fetch ==
  /\ pc = "loop"
  /\ idx <= Len(Sources(job).v)
  /\ Truthy(Sources(job).v[idx])
  /\ trace' = Append(trace, [NewTrace(Sources(job).v[idx]) EXCEPT !.fetches = 1])
  /\ IF plan[idx].fetch = "ok"
     THEN pc' = "convert" /\ UNCHANGED <<results, idx, response>>
     ELSE ItemRaises(plan[idx].fetch)
  /\ UNCHANGED <<converter, job, plan, doc, appVars>>

\* variant: a converter is built anew, with default options, for each call
Convert_Rebuilds ==
  /\ pc = "convert"
  /\ converter' = DefaultPipelineOptions
  /\ trace' = [trace EXCEPT ![idx].converts =
                 Append(@, ConvertKwargs(MaxPages(job), MaxFileSize(job))),
                           ![idx].engines = Append(@, converter')]
  /\ IF plan[idx].convert \in DocIds
     THEN doc' = plan[idx].convert /\ pc' = "export"
          /\ UNCHANGED <<results, idx, response>>
     ELSE doc' = "none" /\ ItemRaises(plan[idx].convert)
  /\ UNCHANGED <<job, plan, appVars>>

\* lines 104-117: converter.convert(doc_stream, **convert_kwargs)
Convert ==
  /\ pc = "convert"
  /\ trace' = [trace EXCEPT ![idx].converts =
                 Append(@, ConvertKwargs(MaxPages(job), MaxFileSize(job))),
                           ![idx].engines = Append(@, converter)]
  /\ IF plan[idx].convert \in DocIds
     THEN doc' = plan[idx].convert /\ pc' = "export"
          /\ UNCHANGED <<results, idx, response>>
     ELSE doc' = "none" /\ ItemRaises(plan[idx].convert)
  /\ UNCHANGED <<converter, job, plan, appVars>>

\* lines 120-178: export, metadata, statistics, results.append
Export ==
  /\ pc = "export"
  /\ LET exporter == SelectExporter(ExportFormat(job))
     IN IF exporter = "AttributeError"
        THEN trace' = trace /\ ItemRaises("AttributeError")
        ELSE /\ trace' = [trace EXCEPT ![idx].exports = Append(@, exporter)]
             /\ IF plan[idx].export = "ok"
                THEN /\ results' = AppendResult(results,
                          SuccessRecord(Sources(job).v[idx], ExportFormat(job), exporter, doc))
                     /\ idx' = idx + 1
                     /\ pc' = "loop"
                     /\ response' = response
                ELSE ItemRaises(plan[idx].export)
  /\ doc' = "none"
  /\ UNCHANGED <<converter, job, plan, appVars>>

\* lines 199-204: the aggregated response
Return ==
  /\ pc = "loop"
  /\ idx > Len(Sources(job).v)
  /\ pc' = "returned"
  /\ response' = [output |-> results, status_code |-> 200,
                  total_processed |-> CountStatus(results, "success"),
                  total_failed |-> CountStatus(results, "failed")]
  /\ UNCHANGED <<converter, job, plan, idx, doc, results, trace, appVars>>

\* runpod.serverless.start: the worker takes the next job once the handler
\* has returned or raised; nothing of the finished job is kept
NextJob ==
  /\ pc \in {"returned", "raised"}
  /\ pc' = "idle"
  /\ job' = NoJob
  /\ plan' = <<>>
  /\ idx' = 0
  /\ doc' = "none"
  /\ results' = <<>>
  /\ response' = NoResponse
  /\ trace' = <<>>
  /\ UNCHANGED <<converter, appVars>>

\* ------------------------------------------- processor.py and app.py
ADMIN == <<"a", "d", "m", "i", "n">>
SECRET == <<"s", "3">>

CapabilityEnvValues ==
  {PyAbsent, PyStr(LOW), PyStr(<<"L", "O", "W">>), PyStr(<<"L", "o", "w">>),
   PyStr(MEDIUM), PyStr(<<"M", "e", "d", "i", "u", "m">>), PyStr(<<"M", "E", "D", "I", "U", "M">>),
   PyStr(HIGH), PyStr(<<"H", "I", "G", "H">>), PyStr(<<"h", "i", "G", "h">>),
   PyStr(<<"u", "l", "t", "r", "a">>), PyStr(<<"l", "o", "w", " ">>),
   PyStr(<<"h", "i">>), PyStr(<<>>)}

ApiKeyEnvValues == {PyAbsent, PyStr(SECRET)}

Credentials == {ADMIN, SECRET, <<"A", "d", "m", "i", "n">>, <<>>}

DocumentUrls == {U1, <<"h", "/", "c", "/", "d">>}

\* os.getenv("API_KEY", "admin")
ApiKey(env) == DictGet(env, PyStr(ADMIN)).v

\* variant: verify_api_key without the comparison
verify_api_key_AcceptAll(credentials, env) == TRUE

\* app.py verify_api_key: TRUE when the credential is accepted, FALSE when
\* HTTPException 401 is raised
verify_api_key(credentials, env) == ~(credentials # ApiKey(env))

\* processor.py handler(source): what it returns or raises, given what the
\* network, the engine and the exporter do
ProcessorRaise(exc) == [raised |-> TRUE, message |-> ErrorMsg(exc)]

ProcessorResult(source, exporter, d, capability) ==
  [content |-> [exporter |-> exporter, doc |-> d],
   metadata |-> [source |-> source, filename |-> Filename(source.v),
                 page_count |-> PageCount(Fixtures[d]),
                 export_format |-> PyStr(MARKDOWN),
                 device_capability |-> capability,
                 enrichments_applied |-> enrichment_flags[capability],
                 enrichment_stats |-> EnrichmentStats(Fixtures[d])],
   status |-> "success"]

process_handler(source, fate, capability) ==
  IF fate.fetch # "ok" THEN ProcessorRaise(fate.fetch)
  ELSE IF fate.convert \notin DocIds THEN ProcessorRaise(fate.convert)
  ELSE LET exporter == SelectExporter(PyStr(MARKDOWN))
       IN IF exporter = "AttributeError" THEN ProcessorRaise("AttributeError")
          ELSE IF fate.export # "ok" THEN ProcessorRaise(fate.export)
          ELSE IF capability \notin DOMAIN enrichment_flags THEN ProcessorRaise("KeyError")
          ELSE [raised |-> FALSE,
                result |-> ProcessorResult(source, exporter, fate.convert, capability)]

\* the calls process_handler makes on the way
ProcessorCalls(fate) ==
  [fetches |-> 1,
   converts |-> IF fate.fetch = "ok"
                THEN <<ConvertKwargs(PyNone, PyInt(DEFAULT_MAX_FILE_SIZE))>> ELSE <<>>,
   exports |-> IF fate.fetch = "ok" /\ fate.convert \in DocIds
               THEN <<SelectExporter(PyStr(MARKDOWN))>> ELSE <<>>]

NoCalls == [fetches |-> 0, converts |-> <<>>, exports |-> <<>>]

NoRequest ==
  [method |-> "none", path |-> "none", credentials |-> <<>>, document_url |-> <<>>,
   fate |-> NoFate, verified |-> FALSE, handled |-> FALSE, calls |-> NoCalls]

ServiceInfo ==
  [message |-> "Doc Processor API", docs |-> "/docs",
   auth |-> "Required - use Authorization: Bearer <API_KEY>"]

\* module initialisation of processor.py under an environment
AppInitWith(capabilityEnv, apiKeyEnv) ==
  /\ envCapability = capabilityEnv
  /\ envApiKey = apiKeyEnv
  /\ DEVICE_CAPABILITY = EffectiveCapability(capabilityEnv)
  /\ app_converter = create_converter(EffectiveCapability(capabilityEnv))
  /\ appPc = "idle"
  /\ appReq = NoRequest
  /\ appResp = [pending |-> TRUE]

AppIdle == AppInitWith(PyAbsent, PyAbsent)

AppInit ==
  \E c \in CapabilityEnvValues : \E k \in ApiKeyEnvValues : AppInitWith(c, k)

\* GET /
root ==
  /\ appPc = "idle"
  /\ appReq' = [NoRequest EXCEPT !.method = "GET", !.path = "/"]
  /\ appResp' = [status_code |-> 200, body |-> ServiceInfo]
  /\ UNCHANGED <<envCapability, envApiKey, DEVICE_CAPABILITY, app_converter, appPc, batchVars>>

\* POST /process arrives with a bearer credential and a document URL
PostProcess(credentials, url, fate) ==
  /\ appPc = "idle"
  /\ appReq' = [NoRequest EXCEPT !.method = "POST", !.path = "/process",
                  !.credentials = credentials, !.document_url = url, !.fate = fate]
  /\ appResp' = [pending |-> TRUE]
  /\ appPc' = "verify"
  /\ UNCHANGED <<envCapability, envApiKey, DEVICE_CAPABILITY, app_converter, batchVars>>

\* Depends(verify_api_key)
VerifyApiKey ==
  /\ appPc = "verify"
  /\ IF verify_api_key(appReq.credentials, envApiKey)
     THEN /\ appReq' = [appReq EXCEPT !.verified = TRUE]
          /\ appPc' = "process"
          /\ appResp' = appResp
     ELSE /\ appResp' = [status_code |-> 401, detail |-> "Invalid API key"]
          /\ appPc' = "idle"
          /\ appReq' = appReq
  /\ UNCHANGED <<envCapability, envApiKey, DEVICE_CAPABILITY, app_converter, batchVars>>

\* the body of process_document: the handler call inside try/except Exception
process_document ==
  /\ appPc = "process"
  /\ LET out == process_handler(PyStr(appReq.document_url), appReq.fate, DEVICE_CAPABILITY)
     IN appResp' =
          IF out.raised
          THEN [status_code |-> 500,
                detail |-> [prefix |-> "Document processing failed", message |-> out.message]]
          ELSE [status_code |-> 200, body |-> [result |-> out.result]]
  /\ appReq' = [appReq EXCEPT !.handled = TRUE, !.calls = ProcessorCalls(appReq.fate)]
  /\ appPc' = "idle"
  /\ UNCHANGED <<envCapability, envApiKey, DEVICE_CAPABILITY, app_converter, batchVars>>

Post ==
  /\ appPc = "idle"
  /\ \E c \in Credentials : \E u \in DocumentUrls : \E f \in ItemFates : PostProcess(c, u, f)

NextApp ==
  \/ root
  \/ Post
  \/ VerifyApiKey
  \/ process_document

InitApp == BatchInit /\ AppInit

SpecApp == InitApp /\ [][NextApp]_vars

Init == BatchInit /\ AppIdle

\* the worker hands the handler any job; the plan is what the outside world
\* will do to each of its sources
Handler ==
  /\ pc = "idle"
  /\ \E j \in Jobs : \E p \in Plans(j) : Invoke(j, p)

Next ==
  \/ ModuleImport
  \/ Handler
  \/ SkipEmpty
  \/ Fetch
  \/ Convert
  \/ Export
  \/ Return
  \/ NextJob

Spec == Init /\ [][Next]_vars


\* ================================================================ claims
\* the source list of a job that passed the check of line 85
WellFormedBatch ==
  /\ job.input.t = "dict"
  /\ Sources(job).t = "list"
  /\ Len(Sources(job).v) > 0

BatchSize == Len(Sources(job).v)

\* the item at i meets no failure of its own: it is fetched, converted and
\* exported, and the requested format is a string
ItemSucceeds(i) == AllOk(plan[i]) /\ ExportFormat(job).t = "str"

OneFetchFailsOnly ==
  \E i \in 1..BatchSize :
    /\ plan[i].fetch \in FetchErrors
    /\ \A k \in (1..BatchSize) \ {i} : ItemSucceeds(k)

\* C1: failure isolation. A job with a non-empty list of sources never makes
\* the handler raise, whatever fails for whichever item; every item whose own
\* fetch, conversion and export succeed is recorded with status "success";
\* and when exactly one fetch fails and the other items succeed, the
\* response counts N-1 processed and 1 failed.
C1_FailureIsolation ==
  WellFormedBatch =>
    /\ pc # "raised"
    /\ \A i \in DOMAIN results : ItemSucceeds(i) => HasStatus(results[i], "success")
    /\ pc = "returned" =>
         /\ DOMAIN response = {"output", "status_code", "total_processed", "total_failed"}
         /\ response.status_code = 200
         /\ \A i \in 1..BatchSize :
              ItemSucceeds(i) =>
                i \in DOMAIN response.output /\ HasStatus(response.output[i], "success")
         /\ OneFetchFailsOnly =>
              /\ response.total_processed = BatchSize - 1
              /\ response.total_failed = 1

C1_Witness ==
  /\ pc = "returned"
  /\ WellFormedBatch
  /\ BatchSize = 2
  /\ plan[1].fetch = "ConnectError"
  /\ ItemSucceeds(2)
  /\ response.total_processed = 1
  /\ response.total_failed = 1

\* the source a record is about: metadata.source of a success, source of a failure
RecordSource(r) == IF HasStatus(r, "success") THEN r.metadata.source ELSE r.source

\* the record at i tells what happened to the source at i
OutcomeOf(r, i) ==
  LET src == Sources(job).v[i]
  IN IF ~Truthy(src) THEN "error" \in DOMAIN r /\ r.error.prefix = "Empty source"
     ELSE IF plan[i].fetch # "ok" THEN HasStatus(r, "failed") /\ r.error.exc = plan[i].fetch
     ELSE IF plan[i].convert \notin DocIds
     THEN HasStatus(r, "failed") /\ r.error.exc = plan[i].convert
     ELSE IF ExportFormat(job).t # "str"
     THEN HasStatus(r, "failed") /\ r.error.exc = "AttributeError"
     ELSE IF plan[i].export # "ok"
     THEN HasStatus(r, "failed") /\ r.error.exc = plan[i].export
     ELSE HasStatus(r, "success") /\ r.content.doc = plan[i].convert

\* C2: the output of a returned batch has exactly one record per source, and
\* the record at position i is the outcome of the source at position i: it
\* carries that source (metadata.source of a success, source of a failure)
\* and tells what happened to it.
C2_OrderedOutcomes ==
  (pc = "returned" /\ WellFormedBatch) =>
    /\ Len(response.output) = BatchSize
    /\ \A i \in 1..BatchSize :
         /\ RecordSource(response.output[i]) = Sources(job).v[i]
         /\ OutcomeOf(response.output[i], i)

C2_Witness ==
  /\ pc = "returned"
  /\ WellFormedBatch
  /\ BatchSize = 2
  /\ Sources(job).v[1] = PyStr(U1)
  /\ Sources(job).v[2] = PyStr(U2)
  /\ HasStatus(response.output[1], "failed")
  /\ HasStatus(response.output[2], "success")
  /\ response.output[2].metadata.source = PyStr(U2)

\* C3: every failed item is classified by the step that failed: a failure of
\* the fetch (connection error, timeout, error HTTP status) is recorded as
\* "HTTP request failed", a failure of conversion or export as "Processing
\* failed".
C3_TwoErrorKinds ==
  \A i \in DOMAIN results :
    HasStatus(results[i], "failed") =>
      /\ plan[i].fetch \in FetchErrors => results[i].error.prefix = "HTTP request failed"
      /\ plan[i].fetch = "ok" => results[i].error.prefix = "Processing failed"

\* C4: no exception escapes the request layer: POST /process answers an
\* exception of the processing with a 500 that carries its message, and the
\* serverless handler returns a result for every job and never raises.
C4_NoExceptionEscapes ==
  /\ pc # "raised"
  /\ (appReq.handled /\ process_handler(PyStr(appReq.document_url), appReq.fate,
                                       DEVICE_CAPABILITY).raised) =>
       /\ appResp.status_code = 500
       /\ appResp.detail.message.exc \in Exceptions

\* C5: POST /process with a bearer credential that differs from the API key
\* (API_KEY, default "admin") is answered 401 and nothing is fetched or
\* converted; the handler runs only for a verified credential equal to the
\* key. GET / needs no credential and returns the service info.
C5_BearerAuth ==
  /\ (appReq.method = "POST" /\ appReq.credentials # (IF envApiKey = PyAbsent THEN ADMIN ELSE envApiKey.v)) =>
       /\ ~appReq.handled
       /\ appReq.calls = NoCalls
       /\ appPc # "process"
       /\ appPc = "idle" => appResp = [status_code |-> 401, detail |-> "Invalid API key"]
  /\ (appReq.handled \/ appPc = "process") =>
       /\ appReq.verified
       /\ appReq.credentials = (IF envApiKey = PyAbsent THEN ADMIN ELSE envApiKey.v)
  /\ appReq.method = "GET" =>
       /\ appResp = [status_code |-> 200, body |-> ServiceInfo]
       /\ ~appReq.verified

C5_Witness ==
  /\ appReq.method = "POST"
  /\ envApiKey = PyStr(SECRET)
  /\ appReq.credentials = ADMIN
  /\ appPc = "idle"
  /\ appResp.status_code = 401


\* the upper-case form of the letters of the tier and format names
UpperOf(c) ==
  CASE c = "a" -> "A" [] c = "d" -> "D" [] c = "e" -> "E" [] c = "g" -> "G"
    [] c = "h" -> "H" [] c = "i" -> "I" [] c = "j" -> "J" [] c = "k" -> "K"
    [] c = "l" -> "L" [] c = "m" -> "M" [] c = "n" -> "N" [] c = "o" -> "O"
    [] c = "r" -> "R" [] c = "s" -> "S" [] c = "t" -> "T" [] c = "u" -> "U"
    [] c = "w" -> "W" [] c = "x" -> "X"
    [] OTHER -> c

\* s spells name, each letter in either case
IsCaseVariant(s, name) ==
  /\ Len(s) = Len(name)
  /\ \A i \in 1..Len(name) : s[i] = name[i] \/ s[i] = UpperOf(name[i])

\* C6: after module initialisation the effective tier is one of low, medium,
\* high: unset means high, a case variant of a tier name is that tier, any
\* other value becomes high; the lookup enrichment_flags[DEVICE_CAPABILITY]
\* never fails.
C6_TierSelection ==
  /\ DEVICE_CAPABILITY \in {LOW, MEDIUM, HIGH}
  /\ envCapability.t = "absent" => DEVICE_CAPABILITY = HIGH
  /\ envCapability.t = "str" =>
       /\ IsCaseVariant(envCapability.v, LOW) => DEVICE_CAPABILITY = LOW
       /\ IsCaseVariant(envCapability.v, MEDIUM) => DEVICE_CAPABILITY = MEDIUM
       /\ IsCaseVariant(envCapability.v, HIGH) => DEVICE_CAPABILITY = HIGH
       /\ (\A n \in {LOW, MEDIUM, HIGH} : ~IsCaseVariant(envCapability.v, n)) =>
            DEVICE_CAPABILITY = HIGH
  /\ DEVICE_CAPABILITY \in DOMAIN enrichment_flags
  /\ (appReq.handled /\ appResp.status_code = 500) => appResp.detail.message.exc # "KeyError"

C6_Witness ==
  /\ envCapability = PyStr(<<"u", "l", "t", "r", "a">>)
  /\ DEVICE_CAPABILITY = HIGH
  /\ appReq.handled
  /\ appResp.status_code = 200
  /\ appResp.body.result.metadata.device_capability = HIGH

\* the table of the claim, per tier
C7_Table(tier) ==
  IF tier = LOW THEN
    [code |-> FALSE, formula |-> FALSE, images |-> FALSE, classification |-> FALSE,
     description |-> FALSE, table |-> TRUE, ocr |-> TRUE]
  ELSE IF tier = MEDIUM THEN
    [code |-> TRUE, formula |-> TRUE, images |-> FALSE, classification |-> FALSE,
     description |-> FALSE, table |-> TRUE, ocr |-> TRUE]
  ELSE
    [code |-> TRUE, formula |-> TRUE, images |-> TRUE, classification |-> TRUE,
     description |-> TRUE, table |-> TRUE, ocr |-> TRUE]

C7_Matches(options, tier) ==
  /\ options.do_code_enrichment = C7_Table(tier).code
  /\ options.do_formula_enrichment = C7_Table(tier).formula
  /\ options.generate_picture_images = C7_Table(tier).images
  /\ options.do_picture_classification = C7_Table(tier).classification
  /\ options.do_picture_description = C7_Table(tier).description
  /\ options.do_table_structure = C7_Table(tier).table
  /\ options.do_ocr = C7_Table(tier).ocr
  /\ options.ocr_engine = "TesseractCli"
  /\ options.force_full_page_ocr = TRUE
  /\ tier = HIGH => options.table_mode = "ACCURATE" /\ options.do_cell_matching = "True"

\* C7: the options _build_pipeline_options returns are the fixed table of the
\* claim: low = code, formula, picture images, classification, description
\* off, table structure and OCR on; medium = code and formula on, the picture
\* features off, table structure and OCR on; high = all on, with accurate
\* table mode and cell matching; the OCR engine is the Tesseract CLI with
\* full-page OCR forced in every tier. The converter of the process is built
\* with the options of the effective tier.
C7_PipelineTable ==
  /\ \A tier \in VALID_CAPABILITIES : C7_Matches(_build_pipeline_options(tier), tier)
  /\ C7_Matches(app_converter, DEVICE_CAPABILITY)

C7_Witness ==
  /\ envCapability = PyStr(<<"L", "o", "w">>)
  /\ app_converter.do_code_enrichment = FALSE
  /\ app_converter.do_ocr = TRUE
  /\ appReq.handled
  /\ appResp.status_code = 200

\* C8: the metadata of a successful result reports the enrichments that were
\* enabled: each flag of metadata.enrichments_applied equals the option of
\* that name in the pipeline options the converter was built with, and
\* metadata.device_capability is the effective tier.
C8_MetadataMatchesOptions ==
  (appReq.handled /\ appResp.status_code = 200) =>
    LET m == appResp.body.result.metadata
    IN /\ m.device_capability = DEVICE_CAPABILITY
       /\ m.enrichments_applied.code_enrichment = app_converter.do_code_enrichment
       /\ m.enrichments_applied.formula_enrichment = app_converter.do_formula_enrichment
       /\ m.enrichments_applied.picture_classification = app_converter.do_picture_classification
       /\ m.enrichments_applied.picture_description = app_converter.do_picture_description
       /\ m.enrichments_applied.table_structure = app_converter.do_table_structure
       /\ m.enrichments_applied.ocr = app_converter.do_ocr

\* the exporter the claim names for a format string
C9_Expected(f) ==
  IF IsCaseVariant(f, MARKDOWN) THEN "export_to_markdown"
  ELSE IF IsCaseVariant(f, HTML) THEN "export_to_html"
  ELSE IF IsCaseVariant(f, JSON) THEN "export_to_json"
  ELSE IF IsCaseVariant(f, TEXT) THEN "export_to_text"
  ELSE "export_to_markdown"

\* C9: for a requested export_format that is a string, markdown, html, json
\* and text in any letter case select the markdown, HTML, JSON and text
\* export, every other string selects the markdown export, and exactly one
\* export is performed per successfully converted item.
C9_ExportFormatSelection ==
  (pc # "idle" /\ WellFormedBatch /\ ExportFormat(job).t = "str") =>
    \A i \in DOMAIN trace :
      /\ Len(trace[i].exports) <= 1
      /\ \A k \in DOMAIN trace[i].exports :
           trace[i].exports[k] = C9_Expected(ExportFormat(job).v)
      /\ (i \in DOMAIN results /\ plan[i].convert \in DocIds) => Len(trace[i].exports) = 1
      /\ (i \in DOMAIN results /\ plan[i].convert \notin DocIds) => Len(trace[i].exports) = 0
      /\ (i \in DOMAIN results /\ HasStatus(results[i], "success")) =>
           results[i].content.exporter = C9_Expected(ExportFormat(job).v)

C9_Witness ==
  /\ pc = "returned"
  /\ WellFormedBatch
  /\ ExportFormat(job) = PyStr(<<"H", "T", "M", "L">>)
  /\ HasStatus(response.output[1], "success")
  /\ response.output[1].content.exporter = "export_to_html"
  /\ trace[1].exports = <<"export_to_html">>

\* the items of a document that carry a label
LabelCount(d, label) ==
  Cardinality({k \in DOMAIN Fixtures[d].texts : Fixtures[d].texts[k].label = label})

\* C10: enrichment_stats of a converted document reports formulas = the
\* number of text items labelled formula, images = the number of pictures,
\* tables = the number of tables, code_blocks = the number of code items.
C10_EnrichmentStats ==
  \A i \in DOMAIN results :
    HasStatus(results[i], "success") =>
      LET st == results[i].metadata.enrichment_stats
          d == results[i].content.doc
      IN /\ st.formulas = LabelCount(d, "formula")
         /\ st.images = Len(Fixtures[d].pictures)
         /\ st.tables = Len(Fixtures[d].tables)
         /\ st.code_blocks = LabelCount(d, "code")


\* C11: a batch is processed one source at a time, in input order, without
\* retry: the calls for the source at i+1 start only once the outcome of the
\* source at i is recorded, and each source is fetched at most once and
\* converted at most once, also when its fetch or conversion fails.
C11_SequentialNoRetry ==
  (pc \in {"loop", "convert", "export", "returned"} /\ WellFormedBatch) =>
    /\ Len(trace) <= BatchSize
    /\ \A i \in DOMAIN trace :
         /\ trace[i].source = Sources(job).v[i]
         /\ trace[i].fetches <= 1
         /\ Len(trace[i].converts) <= 1
         /\ Len(trace[i].converts) <= trace[i].fetches
         /\ i \in DOMAIN results =>
              /\ trace[i].fetches = (IF Truthy(Sources(job).v[i]) THEN 1 ELSE 0)
              /\ Len(trace[i].converts) = (IF plan[i].fetch = "ok" THEN 1 ELSE 0)
    /\ pc = "loop" => Len(trace) = Len(results) /\ idx = Len(results) + 1
    /\ pc \in {"convert", "export"} => Len(trace) = Len(results) + 1 /\ idx = Len(trace)
    /\ pc = "returned" => Len(trace) = BatchSize /\ Len(results) = BatchSize

C11_Witness ==
  /\ pc = "returned"
  /\ WellFormedBatch
  /\ BatchSize = 2
  /\ plan[1].fetch = "ReadTimeout"
  /\ plan[2].convert = "ConversionError"
  /\ trace[1].fetches = 1
  /\ trace[2].fetches = 1
  /\ Len(trace[2].converts) = 1


\* the request's own value of a limit is a number other than 0
IsNonZero(x) == x.t = "int" /\ x.v # <<0>>

\* C13 as stated: a page limit is handed to the engine exactly when the
\* request supplies max_pages, with that value, and the size limit handed is
\* the request's max_file_size when supplied and 100 MB otherwise.
C13_LimitsPassedThrough ==
  (pc \in {"loop", "convert", "export", "returned"} /\ WellFormedBatch) =>
    \A i \in DOMAIN trace : \A k \in DOMAIN trace[i].converts :
      LET kw == trace[i].converts[k]
          mp == job.input.max_pages
          ms == job.input.max_file_size
      IN /\ kw.max_num_pages = mp
         /\ kw.max_file_size = (IF ms.t = "absent" THEN PyInt(100 * 1024 * 1024) ELSE ms)

\* C13 amended: a page limit is handed to the engine exactly when the
\* request's max_pages is a number other than 0, with that value; the size
\* limit handed is the request's max_file_size when that is a number other
\* than 0, 100 MB when the request omits it, and none when it is 0 or null.
C13_TruthyLimitsPassedThrough ==
  (pc \in {"loop", "convert", "export", "returned"} /\ WellFormedBatch) =>
    \A i \in DOMAIN trace : \A k \in DOMAIN trace[i].converts :
      LET kw == trace[i].converts[k]
          mp == job.input.max_pages
          ms == job.input.max_file_size
      IN /\ kw.max_num_pages = (IF IsNonZero(mp) THEN mp ELSE PyAbsent)
         /\ kw.max_file_size =
              (IF ms.t = "absent" THEN PyInt(100 * 1024 * 1024)
               ELSE IF IsNonZero(ms) THEN ms ELSE PyAbsent)

C13_Witness ==
  /\ pc = "returned"
  /\ WellFormedBatch
  /\ job.input.max_pages = PyInt(2)
  /\ job.input.max_file_size = PyInt(0)
  /\ Len(trace[1].converts) = 1
  /\ trace[1].converts[1].max_num_pages = PyInt(2)
  /\ trace[1].converts[1].max_file_size = PyAbsent

\* C14: every record of the output of a batch has status "success" or
\* "failed", holds content and metadata exactly when it is a success and
\* error exactly when it is failed, and total_processed + total_failed is
\* the number of sources, also for lists with empty or null entries.
C14_CountsAccountForEverySource ==
  (pc = "returned" /\ WellFormedBatch) =>
    /\ \A i \in DOMAIN response.output :
         LET r == response.output[i]
         IN /\ HasStatus(r, "success") \/ HasStatus(r, "failed")
            /\ HasStatus(r, "success") <=> {"content", "metadata"} \subseteq DOMAIN r
            /\ HasStatus(r, "failed") <=> "error" \in DOMAIN r
    /\ response.total_processed + response.total_failed = BatchSize

\* the job names no source: no input, no sources, or an empty list
NoSourcesJob ==
  \/ job.input.t = "absent"
  \/ job.input.t = "dict" /\ job.input.sources.t = "absent"
  \/ job.input.t = "dict" /\ job.input.sources = PyList(<<>>)

\* C15: a job without sources (no input, no sources key, an empty list) is
\* rejected before any work: the handler returns the error "No sources
\* provided" with status_code 400, without output or counts, and fetches and
\* converts nothing.
C15_NoSourcesRejected ==
  (pc \notin {"import", "idle"} /\ NoSourcesJob) =>
    /\ pc = "returned"
    /\ response = [error |-> "No sources provided", status_code |-> 400]
    /\ DOMAIN response = {"error", "status_code"}
    /\ trace = <<>>
    /\ results = <<>>

C15_Witness ==
  /\ pc = "returned"
  /\ job.input.t = "dict"
  /\ job.input.sources = PyList(<<>>)
  /\ response.status_code = 400
  /\ trace = <<>>


====
